---- MODULE Spec2Model ----
(***************************************************************************)
(* Model of src/app.py ("Quem pode assinar pelo CNPJ?"): the identifier    *)
(* utilities (only_digits, cnpj_format, cnpj_is_valid), the three provider *)
(* adapters with their normalizers, the resolution policy                  *)
(* try_all_providers, and its two callers render_single_result and         *)
(* render_batch_mode.                                                      *)
(*                                                                         *)
(* Representation.  A Python str is a sequence of one-character strings.   *)
(* A dict is a record (the empty dict is the empty function << >>), a      *)
(* list is a sequence.  A JSON body that is not a dict is the record       *)
(* NotADict.  A missing key read with .get() is None; where the code       *)
(* writes "x.get(k) or []" the absent value and the empty list are both    *)
(* << >>, which is what "or []" makes of them.                             *)
(*                                                                         *)
(* The spec's provider names map to the code's labels as                   *)
(*   gateway -> "gateway", primary -> "brasilapi",                         *)
(*   alternate -> "receitaws", unknown -> "desconhecido".                  *)
(***************************************************************************)
EXTENDS Integers, Sequences, FiniteSets, TLC

\* Bounds of the model (not program constants).
MaxRows == 3
NumFree == 2

VARIABLES
  gatewayConfigured,    \* GATEWAY_URL and INTERNAL_API_KEY are both set
  ENABLE_ALT_PROVIDERS, \* the flag both callers pass as try_alternatives
  pc,                   \* position of the script
  caller,               \* "single" | "batch" | "none"
  cnpj_digits,          \* argument of the running try_all_providers
  errors,               \* try_all_providers: errors
  best,                 \* try_all_providers: (raw2, qsa) after the BrasilAPI step
  result,               \* << >> or <<the tuple try_all_providers returned>>
  calls,                \* adapters invoked by the running resolution, in order
  got,                  \* what each invoked adapter's fetch returned or raised
  shown,                \* st.error / st.warning / results emitted by the caller
  cnpjs,                \* render_batch_mode: the retained identifiers
  idx,                  \* render_batch_mode: loop index i (1-based)
  results,              \* render_batch_mode: results
  upload,               \* the rows of the uploaded CSV's cnpj column
  cnpj_input,           \* the text given to cnpj_is_valid / render_single_result
  verdict               \* << >> or <<cnpj_is_valid(cnpj_input)>>

vars == <<gatewayConfigured, ENABLE_ALT_PROVIDERS, pc, caller, cnpj_digits,
          errors, best, result, calls, got, shown, cnpjs, idx, results,
          upload, cnpj_input, verdict>>

----------------------------------------------------------------------------
(* Python values *)

None == "<None>"
EmptyDict == << >>
NotADict == [pytype |-> "not a dict"]

IsDict(v) == "pytype" \notin DOMAIN v

\* d.get(k) for a string-valued key
Get(d, k) == IF k \in DOMAIN d THEN d[k] ELSE None

\* d.get(k) or []   (also: d.get(k) or {})
GetOrEmpty(d, k) == IF k \in DOMAIN d THEN d[k] ELSE << >>

DigitChars == <<"0", "1", "2", "3", "4", "5", "6", "7", "8", "9">>
Digits == {DigitChars[i] : i \in 1..10}

\* int(n) for a digit character, str(k) for 0 <= k <= 9
IntOf(c) == CHOOSE k \in 0..9 : DigitChars[k + 1] = c
StrOf(k) == DigitChars[k + 1]

Min(a, b) == IF a < b THEN a ELSE b

\* s[a:b]
Slice(s, a, b) == SubSeq(s, a + 1, Min(b, Len(s)))

\* c * n
Repeat(c, n) == [i \in 1..n |-> c]

RECURSIVE SumSeq(_)
SumSeq(s) == IF s = << >> THEN 0 ELSE Head(s) + SumSeq(Tail(s))

----------------------------------------------------------------------------
(* Utils *)

only_digits(s) == SelectSeq(s, LAMBDA c : c \in Digits)

zfill(d, n) == IF Len(d) >= n THEN d ELSE Repeat("0", n - Len(d)) \o d

cnpj_format(digits14) ==
  LET d == zfill(only_digits(digits14), 14)
  IN  Slice(d, 0, 2) \o <<".">> \o Slice(d, 2, 5) \o <<".">> \o Slice(d, 5, 8)
        \o <<"/">> \o Slice(d, 8, 12) \o <<"-">> \o Slice(d, 12, 14)

w12 == <<5, 4, 3, 2, 9, 8, 7, 6, 5, 4, 3, 2>>
w13 == <<6, 5, 4, 3, 2, 9, 8, 7, 6, 5, 4, 3, 2>>

\* "0" if r < 2 else str(11 - r)
CalcDigitOffByOne(r) == IF r <= 2 THEN "0" ELSE StrOf(11 - r)
CalcDigit(r) == IF r < 2 THEN "0" ELSE StrOf(11 - r)

calc(nums) ==
  LET ws == IF Len(nums) = 12 THEN w12 ELSE w13
      n  == Min(Len(nums), Len(ws))
      s  == SumSeq([i \in 1..n |-> IntOf(nums[i]) * ws[i]])
      r  == s % 11
  IN  CalcDigit(r)

cnpj_is_valid(cnpj) ==
  LET d == only_digits(cnpj)
  IN  IF Len(d) # 14 \/ d = Repeat(d[1], 14)
      THEN FALSE
      ELSE LET d1 == calc(Slice(d, 0, 12))
               d2 == calc(Slice(d, 0, 12) \o <<d1>>)
           IN  Slice(d, 12, 14) = <<d1, d2>>

----------------------------------------------------------------------------
(* Data fetchers.  A fetch either raises (requests' errors, raise_for_status,
   r.json()) or returns the decoded JSON body; the choice is the network's.
   The st.cache_data wrapper (ttl 3600 s) may answer a repeated successful
   fetch of the same identifier from memory; since an entry can expire before
   any call, a cached answer is one of the answers a fresh fetch can give, and
   the fetchers below draw from the same set either way. *)

GATEWAY == "gateway"
BRASILAPI == "brasilapi"
RECEITAWS == "receitaws"
DESCONHECIDO == "desconhecido"
Providers == {GATEWAY, BRASILAPI, RECEITAWS}

Exc(cls, msg) == [cls |-> cls, msg |-> msg]
Json(body) == [json |-> body]
Raised(reply) == "cls" \in DOMAIN reply

\* Exception classes the fetch/normalize steps raise; all derive from Exception.
ExceptionClasses == {"HTTPError", "ConnectionError", "JSONDecodeError", "AttributeError"}

\* 'list'/'str' object has no attribute 'get', raised by a normalizer
AttributeError == Exc("AttributeError", "object has no attribute 'get'")

Socio1 == [nome_socio |-> "ANA", qualificacao_socio |-> "Socio-Administrador"]
Socio2 == [nome_socio |-> "BETO", qualificacao_socio |-> "Socio"]
RwsSocio1 == [nome |-> "CAIO", qual |-> "Diretor"]
RwsSocio2 == [nome |-> "DINA"]

GatewayReplies ==
  { Exc("HTTPError", "401 Client Error"),
    Json([qsa |-> <<Socio1>>, raw |-> [razao_social |-> "GW SA"]]),
    Json([raw |-> [razao_social |-> "GW SA", socios |-> <<Socio1, Socio2>>]]),
    Json([qsa |-> <<Socio2>>, raw |-> NotADict]),
    Json([qsa |-> << >>, raw |-> [razao_social |-> "GW SA", qsa |-> << >>]]),
    Json([qsa |-> << >>, raw |-> NotADict]),
    Json(EmptyDict),
    Json(NotADict) }

BrasilapiReplies ==
  { Exc("ConnectionError", "Max retries exceeded"),
    Json([razao_social |-> "BR LTDA", qsa |-> <<Socio1>>]),
    Json([razao_social |-> "BR LTDA", socios |-> <<Socio2>>]),
    Json([razao_social |-> "BR LTDA", qsa |-> << >>]),
    Json(NotADict) }

ReceitawsReplies ==
  { Exc("JSONDecodeError", "Expecting value"),
    Json([nome |-> "RW ME", uf |-> "SP", qsa |-> <<RwsSocio1, RwsSocio2>>]),
    Json([nome |-> "RW ME", estado |-> "RJ", qsa |-> << >>]),
    Json([nome |-> "RW ME"]),
    Json(NotADict) }

\* a or b, for lists
Or(a, b) == IF a # << >> THEN a ELSE b

\* A normalizer returns [raw, qsa] or, when it raises, the exception.
normalize_gateway(payload) ==
  IF ~IsDict(payload) THEN AttributeError
  ELSE LET raw == GetOrEmpty(payload, "raw")
           top == GetOrEmpty(payload, "qsa")
       IN  IF top # << >> THEN [raw |-> raw, qsa |-> top]
           ELSE IF ~IsDict(raw) THEN AttributeError
           ELSE [raw |-> raw,
                 qsa |-> Or(GetOrEmpty(raw, "qsa"), GetOrEmpty(raw, "socios"))]

normalize_brasilapi(raw) ==
  IF ~IsDict(raw) THEN AttributeError
  ELSE [raw |-> raw, qsa |-> Or(GetOrEmpty(raw, "qsa"), GetOrEmpty(raw, "socios"))]

normalize_receitaws_keep_keys(raw) ==
  IF ~IsDict(raw) THEN AttributeError
  ELSE [raw |-> raw, qsa |-> GetOrEmpty(raw, "qsa")]

normalize_receitaws(raw) ==
  IF ~IsDict(raw) THEN AttributeError
  ELSE LET qsa  == GetOrEmpty(raw, "qsa")
           norm == [i \in 1..Len(qsa) |->
                      [nome |-> Get(qsa[i], "nome"), qualificacao |-> Get(qsa[i], "qual")]]
           uf   == IF Get(raw, "uf") # None THEN Get(raw, "uf") ELSE Get(raw, "estado")
           base == [razao_social |-> Get(raw, "nome"),
                    porte |-> Get(raw, "porte"),
                    estabelecimento |-> [estado |-> uf,
                                         cidade |-> Get(raw, "municipio"),
                                         cep |-> Get(raw, "cep")]]
       IN  [raw |-> base, qsa |-> norm]

\* The body of each try block: fetch, then normalize.  The value is the
\* normalizer's [raw, qsa], or the exception either step raised.
TryGateway(reply) == IF Raised(reply) THEN reply ELSE normalize_gateway(reply.json)
TryBrasilapi(reply) == IF Raised(reply) THEN reply ELSE normalize_brasilapi(reply.json)
TryReceitaws(reply) == IF Raised(reply) THEN reply ELSE normalize_receitaws(reply.json)

----------------------------------------------------------------------------
(* try_all_providers *)

\* the callers pass try_alts = ENABLE_ALT_PROVIDERS
try_alternatives == ENABLE_ALT_PROVIDERS

\* "except Exception as e": which raised exceptions the handler catches
ExceptRequestsOnly(e) == e.cls \in {"HTTPError", "ConnectionError"}
ExceptException(e) == e.cls \in ExceptionClasses

\* errors[name] = str(e)
RecordUnderGateway(errs, name, e) == errs @@ (GATEWAY :> e.msg)
Record(errs, name, e) == errs @@ (name :> e.msg)

\* "if qsa:" after the gateway
GatewayNeverStops(qsa) == FALSE
GatewayStop(qsa) == qsa # << >>

\* "if qsa or not try_alternatives:" after BrasilAPI
PrimaryStopOnOfficersOnly(qsa, alts) == qsa # << >>
PrimaryStopAlways(qsa, alts) == TRUE
PrimaryStop(qsa, alts) == qsa # << >> \/ ~alts

\* "if try_alternatives:" before ReceitaWS
AlternatesAlways(alts) == TRUE
AlternatesEligible(alts) == alts

\* "if qsa2:" after ReceitaWS
AlternateStop(qsa2) == qsa2 # << >>

Tuple(raw, qsa, source, errs) ==
  [raw |-> raw, qsa |-> qsa, source |-> source, errors |-> errs]

\* entry: errors = {}, then "if GATEWAY_URL and INTERNAL_API_KEY:"
StartResolution(c) ==
  /\ cnpj_digits' = c
  /\ errors' = EmptyDict
  /\ best' = EmptyDict
  /\ result' = << >>
  /\ calls' = << >>
  /\ got' = EmptyDict
  /\ pc' = IF gatewayConfigured THEN GATEWAY ELSE BRASILAPI

\* 1) Gateway
CallGateway ==
  /\ pc = GATEWAY
  /\ \E reply \in GatewayReplies :
       LET out == TryGateway(reply)
       IN  /\ calls' = Append(calls, GATEWAY)
           /\ got' = got @@ (GATEWAY :> reply)
           /\ best' = best
           /\ IF Raised(out)
              THEN IF ExceptException(out)
                   THEN /\ errors' = Record(errors, GATEWAY, out)
                        /\ result' = result
                        /\ pc' = BRASILAPI
                   ELSE /\ errors' = errors
                        /\ result' = result
                        /\ pc' = "raised"
              ELSE IF GatewayStop(out.qsa)
                   THEN /\ errors' = errors
                        /\ result' = <<Tuple(out.raw, out.qsa, GATEWAY, errors)>>
                        /\ pc' = "returned"
                   ELSE /\ errors' = errors
                        /\ result' = result
                        /\ pc' = BRASILAPI
  /\ UNCHANGED <<gatewayConfigured, ENABLE_ALT_PROVIDERS, caller, cnpj_digits,
                 shown, cnpjs, idx, results, upload, cnpj_input, verdict>>

\* 2) BrasilAPI; when it neither returns nor leads to ReceitaWS, the final
\*    "return raw2, qsa, 'desconhecido', errors" is part of the step.
CallBrasilapi ==
  /\ pc = BRASILAPI
  /\ \E reply \in BrasilapiReplies :
       LET out == TryBrasilapi(reply)
           kept == IF Raised(out) THEN [raw |-> EmptyDict, qsa |-> << >>] ELSE out
           errs == IF Raised(out) THEN Record(errors, BRASILAPI, out) ELSE errors
       IN  /\ calls' = Append(calls, BRASILAPI)
           /\ got' = got @@ (BRASILAPI :> reply)
           /\ IF Raised(out) /\ ~ExceptException(out)
              THEN /\ errors' = errors
                   /\ best' = best
                   /\ result' = result
                   /\ pc' = "raised"
              ELSE IF ~Raised(out) /\ PrimaryStop(out.qsa, try_alternatives)
              THEN /\ errors' = errors
                   /\ best' = best
                   /\ result' = <<Tuple(out.raw, out.qsa, BRASILAPI, errors)>>
                   /\ pc' = "returned"
              ELSE /\ errors' = errs
                   /\ best' = kept
                   /\ IF AlternatesEligible(try_alternatives)
                      THEN /\ result' = result
                           /\ pc' = RECEITAWS
                      ELSE /\ result' = <<Tuple(kept.raw, kept.qsa, DESCONHECIDO, errs)>>
                           /\ pc' = "returned"
  /\ UNCHANGED <<gatewayConfigured, ENABLE_ALT_PROVIDERS, caller, cnpj_digits,
                 shown, cnpjs, idx, results, upload, cnpj_input, verdict>>

\* 3) ReceitaWS, then the final return
CallReceitaws ==
  /\ pc = RECEITAWS
  /\ \E reply \in ReceitawsReplies :
       LET out == TryReceitaws(reply)
           errs == IF Raised(out) THEN Record(errors, RECEITAWS, out) ELSE errors
       IN  /\ calls' = Append(calls, RECEITAWS)
           /\ got' = got @@ (RECEITAWS :> reply)
           /\ best' = best
           /\ IF Raised(out) /\ ~ExceptException(out)
              THEN /\ errors' = errors
                   /\ result' = result
                   /\ pc' = "raised"
              ELSE IF ~Raised(out) /\ AlternateStop(out.qsa)
              THEN /\ errors' = errors
                   /\ result' = <<Tuple(out.raw, out.qsa, RECEITAWS, errors)>>
                   /\ pc' = "returned"
              ELSE /\ errors' = errs
                   /\ result' = <<Tuple(best.raw, best.qsa, DESCONHECIDO, errs)>>
                   /\ pc' = "returned"
  /\ UNCHANGED <<gatewayConfigured, ENABLE_ALT_PROVIDERS, caller, cnpj_digits,
                 shown, cnpjs, idx, results, upload, cnpj_input, verdict>>

----------------------------------------------------------------------------
(* Inputs *)

CNPJ_OK == <<"1", "1", "2", "2", "2", "3", "3", "3", "0", "0", "0", "1", "8", "1">>
CNPJ_MASKED ==
  <<"1", "1", ".", "2", "2", "2", ".", "3", "3", "3", "/", "0", "0", "0", "1", "-", "8", "1">>
CNPJ_OTHER_MASKED ==
  <<"0", "0", ".", "0", "0", "0", ".", "0", "0", "0", "/", "0", "0", "0", "1", "-", "9", "1">>
CNPJ_WRONG_DV == <<"1", "1", "2", "2", "2", "3", "3", "3", "0", "0", "0", "1", "8", "2">>
BAD == <<"b", "a", "d">>

\* what a user can type into "Digite o CNPJ"
TypedInputs ==
  { CNPJ_OK, CNPJ_MASKED, CNPJ_OTHER_MASKED, CNPJ_WRONG_DV, BAD, << >>,
    Repeat("1", 14), Repeat("0", 14),
    SubSeq(CNPJ_OK, 1, 13), CNPJ_OK \o <<"0">>, CNPJ_MASKED \o <<"7">> }

\* the cells a CSV's cnpj column can hold (after fillna("")): a malformed
\* one and two identifiers with punctuation
Cells == { BAD, CNPJ_MASKED, CNPJ_OTHER_MASKED }

\* a column mixing a bare identifier, a malformed cell and a punctuated one
MixedColumn == <<CNPJ_OK, BAD, CNPJ_MASKED>>

Columns == UNION { [1..n -> Cells] : n \in 0..MaxRows } \cup {MixedColumn}

----------------------------------------------------------------------------
(* UI *)

\* the script waits for the form or the uploader
Idle == pc = "idle"

\* the script run is over: a table or message is on screen ("done"), or an
\* exception nothing caught ended the run ("crashed")
Over == pc \in {"done", "crashed"}

\* "if len(raw_digits) != 14:"
InputRejectedOnBadDV(raw_digits) == ~cnpj_is_valid(raw_digits)
InputRejected(raw_digits) == Len(raw_digits) # 14

\* render_single_result, up to the call of try_all_providers
Submit ==
  /\ Idle
  /\ \E typed \in TypedInputs :
       LET raw_digits == only_digits(typed)
       IN  /\ cnpj_input' = typed
           /\ caller' = "single"
           /\ IF InputRejected(raw_digits)
              THEN /\ shown' = <<"error: CNPJ invalido">>
                   /\ pc' = "done"
                   /\ cnpj_digits' = << >>
                   /\ errors' = EmptyDict
                   /\ best' = EmptyDict
                   /\ result' = << >>
                   /\ calls' = << >>
                   /\ got' = EmptyDict
              ELSE /\ shown' = IF ~cnpj_is_valid(raw_digits)
                               THEN <<"warning: digitos verificadores">>
                               ELSE << >>
                   /\ StartResolution(raw_digits)
  /\ cnpjs' = << >>
  /\ idx' = 0
  /\ results' = << >>
  /\ upload' = << >>
  /\ UNCHANGED <<gatewayConfigured, ENABLE_ALT_PROVIDERS, verdict>>

\* render_single_result, after try_all_providers came back: raw.get(...)
\* raises on a raw that is no dict, and nothing catches an exception there.
RenderSingle ==
  /\ pc \in {"returned", "raised"}
  /\ caller = "single"
  /\ IF pc = "returned" /\ IsDict(result[1].raw)
     THEN /\ shown' = shown \o <<"fonte", result[1].source>>
          /\ pc' = "done"
     ELSE /\ shown' = shown
          /\ pc' = "crashed"
  /\ UNCHANGED <<gatewayConfigured, ENABLE_ALT_PROVIDERS, caller, cnpj_digits,
                 errors, best, result, calls, got, cnpjs, idx, results, upload,
                 cnpj_input, verdict>>

NoBatch ==
  /\ cnpjs' = << >>
  /\ idx' = 0
  /\ results' = << >>
  /\ pc' = "done"
  /\ cnpj_digits' = << >>
  /\ errors' = EmptyDict
  /\ best' = EmptyDict
  /\ result' = << >>
  /\ calls' = << >>
  /\ got' = EmptyDict

\* cnpjs = [c for c in (only_digits(x) for x in column) if len(c) == 14]
Retained(column) ==
  SelectSeq([i \in 1..Len(column) |-> only_digits(column[i])], LAMBDA c : Len(c) = 14)

\* render_batch_mode, up to the first call of try_all_providers
Upload ==
  /\ Idle
  /\ caller' = "batch"
  /\ cnpj_input' = << >>
  /\ \/ /\ upload' = << >>
        /\ shown' = <<"error: Erro ao ler CSV">>
        /\ NoBatch
     \/ /\ upload' = << >>
        /\ shown' = <<"error: CSV deve conter coluna 'cnpj'">>
        /\ NoBatch
     \/ \E column \in Columns :
          /\ upload' = column
          /\ IF Retained(column) = << >>
             THEN /\ shown' = <<"error: Nenhum CNPJ valido">>
                  /\ NoBatch
             ELSE /\ shown' = << >>
                  /\ cnpjs' = Retained(column)
                  /\ idx' = 1
                  /\ results' = << >>
                  /\ StartResolution(Retained(column)[1])
  /\ UNCHANGED <<gatewayConfigured, ENABLE_ALT_PROVIDERS, verdict>>

\* the "except Exception as e" of the row loop
RowExceptNothing(failed) == FALSE
RowExcept(failed) == failed

\* One pass of the row loop after try_all_providers came back: the row is
\* built from raw, qsa and source; raw.get(...) raises on a raw that is no
\* dict, and the row's except turns that into an error row.  Then the next
\* row starts, or the table is shown.
BatchRow ==
  /\ pc \in {"returned", "raised"}
  /\ caller = "batch"
  /\ LET c == cnpjs[idx]
         failed == pc = "raised" \/ ~IsDict(result[1].raw)
     IN  IF failed /\ ~RowExcept(failed)
         THEN /\ pc' = "crashed"
              /\ caller' = caller
              /\ UNCHANGED <<cnpj_digits, errors, best, result, calls, got, shown,
                             idx, results>>
         ELSE /\ caller' = caller
              /\ results' = Append(results,
                   IF failed
                   THEN [cnpj |-> cnpj_format(c), erro |-> "object has no attribute 'get'"]
                   ELSE [cnpj |-> cnpj_format(c), fonte |-> result[1].source])
              /\ IF idx < Len(cnpjs)
                 THEN /\ idx' = idx + 1
                      /\ shown' = shown
                      /\ StartResolution(cnpjs[idx + 1])
                 ELSE /\ idx' = idx
                      /\ shown' = <<"dataframe">>
                      /\ pc' = "done"
                      /\ UNCHANGED <<cnpj_digits, errors, best, result, calls, got>>
  /\ UNCHANGED <<gatewayConfigured, ENABLE_ALT_PROVIDERS, cnpjs, upload,
                 cnpj_input, verdict>>

\* Streamlit runs the script again on the next interaction: nothing of the
\* previous run is kept but the environment's configuration.
Rerun ==
  /\ Over
  /\ pc' = "idle"
  /\ caller' = "none"
  /\ cnpj_digits' = << >>
  /\ errors' = EmptyDict
  /\ best' = EmptyDict
  /\ result' = << >>
  /\ calls' = << >>
  /\ got' = EmptyDict
  /\ shown' = << >>
  /\ cnpjs' = << >>
  /\ idx' = 0
  /\ results' = << >>
  /\ upload' = << >>
  /\ cnpj_input' = << >>
  /\ UNCHANGED <<gatewayConfigured, ENABLE_ALT_PROVIDERS, verdict>>

----------------------------------------------------------------------------
(* Specification of the application *)

Init ==
  /\ gatewayConfigured \in BOOLEAN
  /\ ENABLE_ALT_PROVIDERS \in BOOLEAN
  /\ pc = "idle"
  /\ caller = "none"
  /\ cnpj_digits = << >>
  /\ errors = EmptyDict
  /\ best = EmptyDict
  /\ result = << >>
  /\ calls = << >>
  /\ got = EmptyDict
  /\ shown = << >>
  /\ cnpjs = << >>
  /\ idx = 0
  /\ results = << >>
  /\ upload = << >>
  /\ cnpj_input = << >>
  /\ verdict = << >>

Next ==
  \/ Submit
  \/ RenderSingle
  \/ Upload
  \/ BatchRow
  \/ CallGateway
  \/ CallBrasilapi
  \/ CallReceitaws
  \/ Rerun

Spec == Init /\ [][Next]_vars

----------------------------------------------------------------------------
(* Specification of cnpj_is_valid alone: the input is drawn at the start and
   the function is applied to it once. *)

\* 14-digit candidates: NumFree free leading digits, the remaining base
\* digits of 11.222.333/0001, and every pair of check digits
Candidates ==
  { p \o SubSeq(CNPJ_OK, NumFree + 1, 12) \o dv :
      p \in [1..NumFree -> Digits], dv \in [1..2 -> Digits] }

ValidatorInputs ==
  Candidates \cup TypedInputs \cup { Repeat(DigitChars[k], 14) : k \in 1..10 }

InitValid ==
  /\ gatewayConfigured = FALSE
  /\ ENABLE_ALT_PROVIDERS = FALSE
  /\ pc = "validate"
  /\ caller = "none"
  /\ cnpj_digits = << >>
  /\ errors = EmptyDict
  /\ best = EmptyDict
  /\ result = << >>
  /\ calls = << >>
  /\ got = EmptyDict
  /\ shown = << >>
  /\ cnpjs = << >>
  /\ idx = 0
  /\ results = << >>
  /\ upload = << >>
  /\ cnpj_input \in ValidatorInputs
  /\ verdict = << >>

Validate ==
  /\ pc = "validate"
  /\ verdict = << >>
  /\ verdict' = <<cnpj_is_valid(cnpj_input)>>
  /\ UNCHANGED <<gatewayConfigured, ENABLE_ALT_PROVIDERS, pc, caller, cnpj_digits,
                 errors, best, result, calls, got, shown, cnpjs, idx, results,
                 upload, cnpj_input>>

NextValid == Validate

SpecValid == InitValid /\ [][NextValid]_vars

----------------------------------------------------------------------------
(* Vocabulary of the properties.  got and calls describe the resolution
   that is running or that ran last. *)

Invoked(p) == p \in DOMAIN got

\* what the adapter p (fetch, then normalize) produced in this resolution
Produced(p) ==
  IF p = GATEWAY THEN TryGateway(got[p])
  ELSE IF p = BRASILAPI THEN TryBrasilapi(got[p])
  ELSE TryReceitaws(got[p])

Failed(p) == Invoked(p) /\ Raised(Produced(p))
Succeeded(p) == Invoked(p) /\ ~Raised(Produced(p))
ReturnedOfficers(p) == Succeeded(p) /\ Produced(p).qsa # << >>
ReturnedNoOfficers(p) == Succeeded(p) /\ Produced(p).qsa = << >>

HasReturned == result # << >>

\* C1: when the gateway is configured and the gateway adapter returns a
\* non-empty officer list, the resolution returns at once with source
\* "gateway" and the gateway's officer list, and neither the primary nor the
\* alternate adapter is invoked in that resolution, whatever the flag.
C1_GatewayStops ==
  (gatewayConfigured /\ ReturnedOfficers(GATEWAY)) =>
    /\ calls = <<GATEWAY>>
    /\ ~Invoked(BRASILAPI) /\ ~Invoked(RECEITAWS)
    /\ pc \notin {BRASILAPI, RECEITAWS, "raised"}
    /\ HasReturned
    /\ result[1].source = GATEWAY
    /\ result[1].qsa = Produced(GATEWAY).qsa
    /\ result[1].raw = Produced(GATEWAY).raw

C1_Witness ==
  /\ pc = "returned"
  /\ ENABLE_ALT_PROVIDERS
  /\ gatewayConfigured
  /\ ReturnedOfficers(GATEWAY)
  /\ result[1].qsa = <<Socio1, Socio2>>

\* the officer list ReceitaWS's body carries, in the common shape
\* (nome -> nome, qual -> qualificacao)
AlternateOfficers(body) ==
  [i \in 1..Len(body.qsa) |->
     [nome |-> IF "nome" \in DOMAIN body.qsa[i] THEN body.qsa[i].nome ELSE None,
      qualificacao |-> IF "qual" \in DOMAIN body.qsa[i] THEN body.qsa[i].qual ELSE None]]

\* C2: when the primary adapter returned zero officers, alternates are
\* allowed and the alternate adapter returns a non-empty officer list, the
\* source is "alternate" (receitaws) and the returned officers are the
\* alternate's normalized list and the data the alternate's normalized data,
\* not the primary's; and after an empty primary answer with alternates
\* allowed the alternate is the next adapter.
C2_Fallback ==
  /\ (ReturnedNoOfficers(BRASILAPI) /\ try_alternatives) =>
       (pc = RECEITAWS \/ Invoked(RECEITAWS))
  /\ (ReturnedNoOfficers(BRASILAPI) /\ try_alternatives /\ ReturnedOfficers(RECEITAWS)) =>
       /\ HasReturned
       /\ result[1].source = RECEITAWS
       /\ result[1].qsa = AlternateOfficers(got[RECEITAWS].json)
       /\ result[1].qsa # << >>
       /\ result[1].raw.razao_social = got[RECEITAWS].json.nome
       /\ result[1].raw # Produced(BRASILAPI).raw

C2_Witness ==
  /\ pc = "returned"
  /\ ReturnedNoOfficers(BRASILAPI)
  /\ try_alternatives
  /\ ReturnedOfficers(RECEITAWS)
  /\ result[1].qsa = <<[nome |-> "CAIO", qualificacao |-> "Diretor"],
                       [nome |-> "DINA", qualificacao |-> None]>>

\* C3: if all three adapters raise, the call does not raise: it returns an
\* empty officer list, source "unknown" (desconhecido) and an errors map
\* whose keys are exactly the three provider names, each with the non-empty
\* message of that provider's exception.
C3_Degradation ==
  (Failed(GATEWAY) /\ Failed(BRASILAPI) /\ Failed(RECEITAWS)) =>
    /\ pc # "raised"
    /\ HasReturned
    /\ result[1].qsa = << >>
    /\ result[1].raw = EmptyDict
    /\ result[1].source = DESCONHECIDO
    /\ DOMAIN result[1].errors = {GATEWAY, BRASILAPI, RECEITAWS}
    /\ \A p \in Providers :
         result[1].errors[p] # "" /\ result[1].errors[p] = Produced(p).msg

C3_Witness ==
  /\ pc = "returned"
  /\ Failed(GATEWAY) /\ Failed(BRASILAPI) /\ Failed(RECEITAWS)
  /\ got[GATEWAY] = Json([qsa |-> << >>, raw |-> NotADict])
  /\ got[RECEITAWS] = Json(NotADict)

\* C4: a failure of any adapter (fetch or normalize) is never propagated to
\* the caller and never ends the chain: it is recorded under that provider's
\* name and the next eligible adapter in the order gateway, primary,
\* alternate is still tried; and the errors map has a key for a provider
\* only if that provider was invoked in this call and failed.
C4_FailuresAbsorbed ==
  /\ pc # "raised"
  /\ DOMAIN errors = {p \in Providers : Failed(p)}
  /\ \A p \in DOMAIN errors : errors[p] = Produced(p).msg
  /\ HasReturned => result[1].errors = errors
  /\ Failed(GATEWAY) => (pc = BRASILAPI \/ Invoked(BRASILAPI))
  /\ (Failed(BRASILAPI) /\ try_alternatives) => (pc = RECEITAWS \/ Invoked(RECEITAWS))
  /\ (Failed(BRASILAPI) /\ ~try_alternatives) => HasReturned
  /\ Failed(RECEITAWS) => HasReturned

C4_Witness ==
  /\ pc = RECEITAWS
  /\ Failed(GATEWAY)
  /\ Failed(BRASILAPI)
  /\ got[BRASILAPI] = Json(NotADict)
  /\ DOMAIN errors = {GATEWAY, BRASILAPI}

\* C5: the alternate adapter is queried only if the flag is set and the
\* primary adapter returned no officer list: never with the flag off, never
\* after the primary returned a non-empty officer list.
C5_AlternateOnlyWhenEligible ==
  (pc = RECEITAWS \/ Invoked(RECEITAWS)) =>
    /\ try_alternatives
    /\ Invoked(BRASILAPI)
    /\ ~ReturnedOfficers(BRASILAPI)
    /\ ~ReturnedOfficers(GATEWAY)

C5_Witness ==
  /\ Invoked(RECEITAWS)
  /\ try_alternatives
  /\ ReturnedNoOfficers(BRASILAPI)

\* C6: with alternates disabled a successful primary answer is returned with
\* source "primary" (brasilapi), its data and its officers, empty or not;
\* with alternates enabled it is returned with source "primary" only when
\* its officer list is non-empty; every other source than "unknown" is
\* returned only with a non-empty officer list.
C6_PrimaryShortCircuit ==
  /\ (Succeeded(BRASILAPI) /\ ~try_alternatives) =>
       /\ HasReturned
       /\ result[1] = Tuple(Produced(BRASILAPI).raw, Produced(BRASILAPI).qsa,
                            BRASILAPI, errors)
       /\ calls[Len(calls)] = BRASILAPI
  /\ (try_alternatives /\ ReturnedOfficers(BRASILAPI)) =>
       (HasReturned /\ result[1].source = BRASILAPI
          /\ result[1].qsa = Produced(BRASILAPI).qsa)
  /\ (try_alternatives /\ HasReturned /\ result[1].source = BRASILAPI) =>
       result[1].qsa # << >>
  /\ (HasReturned /\ result[1].source \in {GATEWAY, RECEITAWS}) =>
       result[1].qsa # << >>

C6_Witness ==
  /\ pc = "returned"
  /\ ~try_alternatives
  /\ ReturnedNoOfficers(BRASILAPI)
  /\ result[1].source = BRASILAPI
  /\ result[1].qsa = << >>

NoOfficersReturned == \A p \in Providers : ~ReturnedOfficers(p)
AllInvokedFailed == \A p \in DOMAIN got : Failed(p)
InResolution == pc \in {GATEWAY, BRASILAPI, RECEITAWS}

\* C7 as stated: whenever all adapters failed or none returned officers,
\* the result is a normal return value with source "unknown" and a
\* non-empty errors map.
C7_AsStated ==
  (HasReturned /\ (AllInvokedFailed \/ NoOfficersReturned)) =>
    /\ pc # "raised"
    /\ result[1].source = DESCONHECIDO
    /\ result[1].errors # EmptyDict

\* C7 as amended: whenever no adapter returned officers the call still
\* returns normally, with an empty officer list; the source is "unknown"
\* unless the primary adapter succeeded with alternates disabled, in which
\* case it is "primary"; the errors map holds exactly the adapters that
\* failed, so it is non-empty exactly when at least one adapter failed, and
\* when every invoked adapter failed the source is "unknown" and the map is
\* non-empty.
C7_Degraded ==
  /\ pc # "raised"
  /\ (calls # << >> /\ ~InResolution) => HasReturned
  /\ (HasReturned /\ NoOfficersReturned) =>
       /\ result[1].qsa = << >>
       /\ result[1].source \in {DESCONHECIDO, BRASILAPI}
       /\ result[1].source = BRASILAPI <=> (~try_alternatives /\ Succeeded(BRASILAPI))
       /\ DOMAIN result[1].errors = {p \in Providers : Failed(p)}
       /\ result[1].errors # EmptyDict <=> (\E p \in Providers : Failed(p))
  /\ (HasReturned /\ AllInvokedFailed) =>
       /\ result[1].source = DESCONHECIDO
       /\ result[1].errors # EmptyDict
  /\ (HasReturned /\ result[1].source = DESCONHECIDO) => NoOfficersReturned

C7_Witness ==
  /\ pc = "returned"
  /\ NoOfficersReturned
  /\ ReturnedNoOfficers(BRASILAPI)
  /\ ReturnedNoOfficers(RECEITAWS)
  /\ result[1].source = DESCONHECIDO
  /\ result[1].errors = EmptyDict
  /\ result[1].raw = [razao_social |-> "BR LTDA", qsa |-> << >>]

Shown(m) == \E i \in 1..Len(shown) : shown[i] = m

\* C8: in a single lookup the resolution policy is invoked if and only if
\* the input has exactly 14 digits once its non-digits are stripped: a wrong
\* digit count shows an input error and no adapter is called; a check-digit
\* mismatch on a 14-digit identifier only shows a warning and the lookup
\* runs with that identifier.
C8_InputGate ==
  caller = "single" =>
    LET digits == SelectSeq(cnpj_input, LAMBDA c : c \in Digits)
    IN  /\ Len(digits) # 14 =>
             /\ calls = << >>
             /\ ~HasReturned
             /\ pc = "done"
             /\ shown = <<"error: CNPJ invalido">>
        /\ Len(digits) = 14 =>
             /\ cnpj_digits = digits
             /\ InResolution \/ calls # << >>
             /\ (pc \in {"returned", "done", "crashed"}) => HasReturned
             /\ ~Shown("error: CNPJ invalido")
             /\ Shown("warning: digitos verificadores") <=> ~cnpj_is_valid(digits)

C8_Witness ==
  /\ caller = "single"
  /\ cnpj_input = CNPJ_WRONG_DV
  /\ shown = <<"warning: digitos verificadores">>
  /\ Invoked(BRASILAPI)
  /\ cnpj_digits = CNPJ_WRONG_DV

RECURSIVE KeepFourteen(_)
KeepFourteen(column) ==
  IF column = << >> THEN << >>
  ELSE LET d == SelectSeq(Head(column), LAMBDA c : c \in Digits)
       IN  (IF Len(d) = 14 THEN <<d>> ELSE << >>) \o KeepFourteen(Tail(column))

\* C9: in batch mode the rows whose identifier does not normalize to exactly
\* 14 digits are dropped before any lookup; the others are resolved one after
\* the other in input order; a failure on one row never aborts the batch, so
\* the finished batch has exactly one row per retained identifier, a result
\* row or an error row; ["11222333000181", "bad", "11.222.333/0001-81"]
\* gives exactly 2 rows.
C9_Batch ==
  caller = "batch" =>
    /\ pc \notin {"crashed", "raised"}
    /\ cnpjs = KeepFourteen(upload)
    /\ \A j \in 1..Len(results) :
         /\ results[j].cnpj = cnpj_format(cnpjs[j])
         /\ DOMAIN results[j] \in {{"cnpj", "fonte"}, {"cnpj", "erro"}}
    /\ (InResolution \/ pc = "returned") =>
         /\ idx \in 1..Len(cnpjs)
         /\ Len(results) = idx - 1
         /\ cnpj_digits = cnpjs[idx]
    /\ pc = "done" => Len(results) = Len(cnpjs)
    /\ (pc = "done" /\ upload = MixedColumn) => Len(results) = 2

C9_Witness ==
  /\ caller = "batch"
  /\ pc = "done"
  /\ upload = MixedColumn
  /\ Len(results) = 2
  /\ "erro" \in DOMAIN results[1]
  /\ results[2] = [cnpj |-> CNPJ_MASKED, fonte |-> RECEITAWS]

\* the published modulo-11 check digit of a run of digits under its weights
Mod11Digit(nums, weights) ==
  LET r == SumSeq([i \in 1..Len(nums) |-> IntOf(nums[i]) * weights[i]]) % 11
  IN  IF r < 2 THEN 0 ELSE 11 - r

\* C10: cnpj_is_valid is false for an input whose digit count is not 14 and
\* for 14 identical digits; for every other 14-digit string it is true
\* exactly when the last two digits are the two modulo-11 check digits (the
\* first over the 12-digit base with weights 5,4,3,2,9,8,7,6,5,4,3,2, the
\* second over the base plus the first digit with weights
\* 6,5,4,3,2,9,8,7,6,5,4,3,2, remainder r giving 0 if r < 2 else 11 - r);
\* 11222333000181 is valid and 11111111111111 is not.
C10_CheckDigits ==
  verdict # << >> =>
    LET d == SelectSeq(cnpj_input, LAMBDA c : c \in Digits)
    IN  /\ Len(d) # 14 => verdict[1] = FALSE
        /\ (Len(d) = 14 /\ \A i \in 1..14 : d[i] = d[1]) => verdict[1] = FALSE
        /\ (Len(d) = 14 /\ \E i \in 1..14 : d[i] # d[1]) =>
             LET base == SubSeq(d, 1, 12)
                 dv1  == Mod11Digit(base, <<5, 4, 3, 2, 9, 8, 7, 6, 5, 4, 3, 2>>)
                 dv2  == Mod11Digit(Append(base, StrOf(dv1)),
                                    <<6, 5, 4, 3, 2, 9, 8, 7, 6, 5, 4, 3, 2>>)
             IN  verdict[1] = (IntOf(d[13]) = dv1 /\ IntOf(d[14]) = dv2)
        /\ cnpj_input = CNPJ_OK => verdict[1] = TRUE
        /\ cnpj_input = Repeat("1", 14) => verdict[1] = FALSE

C10_Witness ==
  /\ cnpj_input = CNPJ_OK
  /\ verdict = <<TRUE>>

====
